---------------------------- MODULE Spec2Model ----------------------------
(***************************************************************************)
(* jquery.mvc.js: the global model ($.model), the binding registry         *)
(* ($.modelBinding), path resolution ($.modelPath), the get/set/delete     *)
(* engine (modelValue over $.modelWalk) and the dispatcher                 *)
(* ($.modelTrigger).                                                       *)
(*                                                                         *)
(* Representation.                                                         *)
(*  - A JavaScript string is written as the sequence of the pieces that    *)
(*    s.split('/') yields: "/a/b" is <<"", "a", "b">>, "/" is <<"", "">>,  *)
(*    "" is <<"">>, "a" is <<"a">>.  The pieces contain no separator, so   *)
(*    this is one-to-one; joining strings with '/' is concatenation.       *)
(*  - A model value is a record [k, kids, len, v]: k is "undef", "num",    *)
(*    "obj" ({...}) or "arr" ([...]); kids maps property names to values;  *)
(*    len is an array's length.  A property holding undefined is written   *)
(*    as an absent key: no code path of the file tells the two apart (it   *)
(*    only ever tests x === undefined).                                    *)
(*  - Scalars are numbers: a Number has no own property among Segs.        *)
(*  - stack holds the activations of $.modelTrigger that have not returned  *)
(*    yet, innermost last; it is empty between top-level calls.  Where the  *)
(*    observers are opaque (Spec), a whole call is one step.                *)
(***************************************************************************)
EXTENDS Integers, Sequences, FiniteSets

VARIABLES model, modelBinding, modelOptions, stack, last

vars == <<model, modelBinding, modelOptions, stack, last>>

-----------------------------------------------------------------------------
(* Bounds and input sets *)

MaxVal == 1
MaxBind == 2
\* the deepest nesting of dispatches followed
MaxDepth == 3

\* property names that are array indices, in order: IdxSegs[k+1] is index k
IdxSegs == <<"0", "1", "2">>

Callbacks == {"f1"}
\* callbacks that call back into the API, or throw, when they are invoked
Scripted == {"fUnbind", "fThrow", "fSet"}
Elements == {"e1", "e2"}
Observers == Callbacks \cup Elements

-----------------------------------------------------------------------------
(* Values *)

NoKids == [s \in {} |-> 0]
Undef == [k |-> "undef", kids |-> NoKids, len |-> 0, v |-> 0]
Num(n) == [k |-> "num", kids |-> NoKids, len |-> 0, v |-> n]
EmptyObj == [k |-> "obj", kids |-> NoKids, len |-> 0, v |-> 0]
EmptyArr == [k |-> "arr", kids |-> NoKids, len |-> 0, v |-> 0]

IsContainer(x) == x.k \in {"obj", "arr"}

IsIndex(seg) == \E k \in 1..Len(IdxSegs) : IdxSegs[k] = seg
IndexOf(seg) == (CHOOSE k \in 1..Len(IdxSegs) : IdxSegs[k] = seg) - 1

\* Number(seg) is NaN: the empty string converts to 0
IsNaN(seg) == ~(IsIndex(seg) \/ seg = "")

\* ToInteger(seg) as Array.prototype.splice takes its start: NaN becomes 0
ToInteger(seg) == IF IsIndex(seg) THEN IndexOf(seg) ELSE 0

Max(a, b) == IF a >= b THEN a ELSE b

\* x[seg] for a non-null x: a Number wrapper has none of the properties
Prop(x, seg) == IF IsContainer(x) /\ seg \in DOMAIN x.kids THEN x.kids[seg] ELSE Undef

\* x[seg] = val on an object or array
PutProp(x, seg, val) ==
  LET ks == IF val = Undef
            THEN [s \in DOMAIN x.kids \ {seg} |-> x.kids[s]]
            ELSE [s \in DOMAIN x.kids \cup {seg} |-> IF s = seg THEN val ELSE x.kids[s]]
      ln == IF x.k = "arr" /\ IsIndex(seg) THEN Max(x.len, IndexOf(seg) + 1) ELSE x.len
  IN [x EXCEPT !.kids = ks, !.len = ln]

\* delete x[seg]
DelProp(x, seg) == [x EXCEPT !.kids = [s \in DOMAIN x.kids \ {seg} |-> x.kids[s]]]

\* x.splice(seg, 1) on an array
Splice(x, seg) ==
  LET start == ToInteger(seg)
      Src(s) == IF IsIndex(s) /\ IndexOf(s) >= start THEN IdxSegs[IndexOf(s) + 2] ELSE s
      dom == {s \in DOMAIN x.kids : ~IsIndex(s) \/ IndexOf(s) < start}
               \cup {IdxSegs[IndexOf(s)] : s \in {t \in DOMAIN x.kids : IsIndex(t) /\ IndexOf(t) > start}}
  IN IF start >= x.len THEN x
     ELSE [x EXCEPT !.kids = [s \in dom |-> x.kids[Src(s)]], !.len = x.len - 1]


-----------------------------------------------------------------------------
(* References and $.modelPath *)

StrRef(pieces) == [s |-> pieces, t |-> "string"]
ArrRef(segs) == [s |-> segs, t |-> "array"]
PathRef(segs) == [s |-> segs, t |-> "path"]
ElemRef(e) == [s |-> <<e>>, t |-> "element"]
NoRef == [s |-> <<>>, t |-> "undefined"]
\* a value that is no string, array or node (a number, say)
OtherRef == [s |-> <<>>, t |-> "other"]

\* $.modelOptions as the file sets it
DefaultOptions == [createArrays |-> TRUE, globalContext |-> StrRef(<<"", "">>)]

\* $.modelOptions.createArrays, $.modelOptions.globalContext
createArrays == modelOptions.createArrays
globalContext == modelOptions.globalContext

\* The 'ref' attributes a node's chain declares, the node's own first, then
\* those of its ancestors that carry the attribute, nearest first.
\*   e1: <div ref="/a"><input ref="0"></div>        e2: <div ref="/a">
\*   e3: <div ref="b"><input ref="x"></div>         e4: <input> in no scope
\*   e5: <div ref="/r"><div ref="/a"><input ref="c"></div></div>
ElemChain(e) ==
  CASE e = "e1" -> << <<"0">>, <<"", "a">> >>
    [] e = "e3" -> << <<"x">>, <<"b">> >>
    [] e = "e4" -> << >>
    [] e = "e5" -> << <<"c">>, <<"", "a">>, <<"", "r">> >>
    [] OTHER -> << <<"", "a">> >>

\* the node itself carries the attribute: filter('[@ref]')
HasRef(e) == e # "e4"

\* attr.charAt(0) == '/'
StartsWithSlash(str) == Len(str) >= 2 /\ str[1] = ""

\* accumRefs over the chain from position i: unshift each attribute, stop
\* after an absolute one
RECURSIVE AccumRefs(_, _, _)
AccumRefs(chain, i, refs) ==
  IF i > Len(chain) THEN refs
  ELSE IF StartsWithSlash(chain[i]) THEN <<chain[i]>> \o refs
  ELSE AccumRefs(chain, i + 1, <<chain[i]>> \o refs)

\* refs.join('/')
RECURSIVE JoinStrs(_)
JoinStrs(refs) ==
  IF refs = <<>> THEN <<"">>
  ELSE IF Len(refs) = 1 THEN refs[1]
  ELSE refs[1] \o JoinStrs(Tail(refs))

\* path.join('/') of a path's segments
JoinSegs(segs) == IF segs = <<>> THEN <<"">> ELSE segs

\* path.toString(): '/' + this.join('/')
PathToString(segs) == <<"">> \o JoinSegs(segs)

NoPath == [segs |-> <<>>, st |-> "undefined"]
OkPath(segs) == [segs |-> segs, st |-> "ok"]
BadPath == [segs |-> <<>>, st |-> "TypeError"]

\* context || $.modelOptions.globalContext: undefined and '' are falsy
ContextOr(context) ==
  IF context.t = "undefined" \/ (context.t = "string" /\ context.s = <<"">>)
  THEN globalContext ELSE context

RECURSIVE ModelPath(_, _)
ModelPath(ref, context) ==
  LET FromString(str) ==
        IF str[1] = "" THEN OkPath(Tail(str))
        ELSE LET c == ModelPath(ContextOr(context), NoRef)
             IN IF c.st = "ok" THEN OkPath(c.segs \o str) ELSE BadPath
  IN CASE ref.t = "undefined" -> NoPath
       [] ref.t = "path" -> OkPath(ref.s)
       [] ref.t = "element" -> FromString(JoinStrs(AccumRefs(ElemChain(ref.s[1]), 1, <<>>)))
       [] ref.t = "string" -> FromString(ref.s)
       [] ref.t = "array" -> OkPath(ref.s)
       [] OTHER -> NoPath

\* The value $.modelWalk descends to, parent = parent[path[i]] from $.model,
\* undefined once a step has nothing to descend into
RECURSIVE ValueAt(_, _)
ValueAt(x, segs) == IF segs = <<>> THEN x ELSE ValueAt(Prop(x, Head(segs)), Tail(segs))

-----------------------------------------------------------------------------
(* modelValue over $.modelWalk *)

GET == 0
SET == 1
DELETE == 2

\* the container made for an absent non-terminal property
NewContainer(nextSeg) == IF IsNaN(nextSeg) \/ ~createArrays THEN EmptyObj ELSE EmptyArr

\* a walk that materializes containers in every mode
NeverThrows(mode) == FALSE

\* mode == 2: an absent non-terminal property throws ReferenceError
ThrowsOnAbsent(mode) == mode = DELETE

\* a set that notifies only when it writes where nothing was stored
ChangedFromAbsent(cur, value) == cur = Undef

\* parent[prop] !== value: numbers compare by value; a container handed to
\* set is a new object ($.extend's result), identical to nothing in the store
Changed(cur, value) == cur # value \/ IsContainer(value)

\* x[seg] = val through a reference x: on a number the write lands on a
\* temporary wrapper object and is lost
StoreProp(x, seg, val) == IF IsContainer(x) THEN PutProp(x, seg, val) ELSE x

\* case 2: parent.splice ? parent.splice(prop, 1) : delete parent[prop]
DeleteAt(parent, prop) ==
  IF parent.k = "arr" THEN Splice(parent, prop)
  ELSE IF parent.k = "obj" THEN DelProp(parent, prop)
  ELSE parent

Res(st, node, ret, fired) == [fired |-> fired, node |-> node, ret |-> ret, st |-> st]

\* the switch of modelValue at the terminal (parent, prop)
Terminal(parent, prop, mode, value) ==
  LET cur == Prop(parent, prop)
  IN IF mode = SET
     THEN IF Changed(cur, value)
          THEN Res("ok", StoreProp(parent, prop, value), value, TRUE)
          ELSE Res("ok", parent, cur, FALSE)
     ELSE IF mode = DELETE
     THEN Res("ok", DeleteAt(parent, prop), cur, TRUE)
     ELSE Res("ok", parent, cur, FALSE)

\* The loop of $.modelWalk from iteration i (1-based) with `parent`, running
\* modelValue's callback, then modelValue's switch.  The result holds the
\* parent subtree as the call leaves it.
RECURSIVE ValueFrom(_, _, _, _, _)
ValueFrom(parent, path, i, mode, value) ==
  LET n == Len(path)
      prop == path[i]
      cur == Prop(parent, prop)
  IN IF parent.k = "undef"
     \* callback.call(undefined) runs on the global object, then
     \* parent[path[i]] on undefined throws
     THEN Res(IF ThrowsOnAbsent(mode) /\ i < n THEN "ReferenceError" ELSE "TypeError",
              parent, Undef, FALSE)
     ELSE IF i = n THEN Terminal(parent, prop, mode, value)
     ELSE IF cur = Undef /\ ThrowsOnAbsent(mode)
     THEN Res("ReferenceError", parent, Undef, FALSE)
     ELSE LET after == IF cur = Undef
                       THEN StoreProp(parent, prop, NewContainer(path[i + 1]))
                       ELSE parent
              sub == ValueFrom(Prop(after, prop), path, i + 1, mode, value)
          IN [sub EXCEPT !.node = IF IsContainer(after)
                                  THEN PutProp(after, prop, sub.node)
                                  ELSE after]

\* modelValue(path, mode, value): status, the store afterwards, the value
\* returned, and whether $.modelTrigger is called
ModelValue(store, path, mode, value) ==
  IF path.st = "TypeError" THEN Res("TypeError", store, Undef, FALSE)
  ELSE IF path.st = "undefined"
  \* $.modelWalk returns at once; parent and prop stay undefined
  THEN Res(IF mode = GET THEN "ok" ELSE "TypeError", store, Undef, FALSE)
  ELSE IF path.segs = <<>>
  THEN Res(IF mode = GET THEN "ok" ELSE "TypeError", store, IF mode = GET THEN store ELSE Undef, FALSE)
  ELSE LET r == ValueFrom(store, path.segs, 1, mode, value)
       IN IF r.st = "ReferenceError" THEN Res("ok", store, Undef, FALSE) ELSE r

-----------------------------------------------------------------------------
(* $.modelTrigger *)

IsFunction(b) == b \in Callbacks \cup Scripted

\* a dispatcher that forgets the origin of the write
DeliversToAll(b, src) == TRUE

\* b !== src
Delivers(b, src) == b # src

\* a record that carries the container instead of the value in it
RecordValueSelf(self, path, i) == self

\* data.value: self[path[i]], read when the observer is reached
RecordValue(self, path, i) == Prop(self, path[i])

\* the key of path.slice(0, i): one segment short
BindingKeyShort(path, i) == PathToString(SubSeq(path, 1, i - 1))

\* '/' + path.slice(0, i+1).join('/'), i counted from 1 here
BindingKey(path, i) == PathToString(SubSeq(path, 1, i))

\* $.each(bindings, ...): one record per observer reached, in list order
Notify(bindings, path, i, value, src) ==
  LET all == [n \in 1..Len(bindings) |->
                [key |-> BindingKey(path, i),
                 kind |-> IF IsFunction(bindings[n]) THEN "call" ELSE "update",
                 n |-> n, obs |-> bindings[n], pathIndex |-> i, value |-> value]]
  IN SelectSeq(all, LAMBDA r : IsFunction(r.obs) \/ Delivers(r.obs, src))

RECURSIVE TriggerFrom(_, _, _, _, _)
TriggerFrom(parent, path, i, src, binding) ==
  IF i > Len(path) THEN [log |-> <<>>, st |-> "ok"]
  ELSE LET key == BindingKey(path, i)
           here == IF key \in DOMAIN binding
                   THEN Notify(binding[key], path, i, RecordValue(parent, path, i), src)
                   ELSE <<>>
       IN IF parent.k = "undef"
          THEN [log |-> here, st |-> "TypeError"]
          ELSE LET rest == TriggerFrom(Prop(parent, path[i]), path, i + 1, src, binding)
               IN [log |-> here \o rest.log, st |-> rest.st]

\* $.modelTrigger(ref, context, event, src): the event name is not used
ModelTrigger(store, path, src, binding) ==
  IF path.st = "ok" THEN TriggerFrom(store, path.segs, 1, src, binding)
  ELSE [log |-> <<>>, st |-> IF path.st = "undefined" THEN "ok" ELSE path.st]


-----------------------------------------------------------------------------
(* The registry: $.modelBind, $.modelUnbind, $.modelGetBound *)

\* $.modelPath(ref, context).toString(): throws on an undefined path
KeyOf(path) == IF path.st = "ok" THEN [key |-> PathToString(path.segs), st |-> "ok"]
               ELSE [key |-> <<>>, st |-> "TypeError"]

\* $.modelBinding[key].push(obj), the list made when absent
BindAt(binding, key, obj) ==
  [k \in DOMAIN binding \cup {key} |->
     IF k = key
     THEN (IF key \in DOMAIN binding THEN binding[key] ELSE <<>>) \o <<obj>>
     ELSE binding[k]]

\* an unbind that removes only the newest observer
UnbindNewest(binding, key) ==
  [k \in DOMAIN binding |->
     IF k = key THEN SubSeq(binding[k], 1, Len(binding[k]) - 1) ELSE binding[k]]

\* delete $.modelBinding[key]
UnbindAt(binding, key) == [k \in DOMAIN binding \ {key} |-> binding[k]]

\* $.modelBinding[key]
BoundAt(binding, key) == IF key \in DOMAIN binding THEN binding[key] ELSE <<>>

Registrations(binding) == UNION {{<<k, n>> : n \in 1..Len(binding[k])} : k \in DOMAIN binding}

-----------------------------------------------------------------------------
(* Inputs *)

\* "/a", "/a/b", "/a/0", "/a/1" and an unresolvable reference
Refs == { StrRef(<<"", "a">>), StrRef(<<"", "a", "b">>),
          StrRef(<<"", "a", "0">>), StrRef(<<"", "a", "1">>), OtherRef }
\* "/", "/a" and an unresolvable reference for callbacks (elements bind at
\* "/a" and "/a/0"); "/a", "/a/0" and an unresolvable reference to unbind
BindRefs == { StrRef(<<"", "">>), StrRef(<<"", "a">>), OtherRef }
UnbindRefs == { StrRef(<<"", "a">>), StrRef(<<"", "a", "0">>), OtherRef }
Values == {Undef} \cup {Num(n) : n \in 1..MaxVal}
\* the references read, looked up and triggered directly
GetRefs == { StrRef(<<"", "a", "1">>), OtherRef }
LookupRefs == { StrRef(<<"", "a">>), OtherRef }
TriggerRefs == { StrRef(<<"", "a", "0">>), OtherRef }

-----------------------------------------------------------------------------
(* State: the store, the registry, and a record of the last call *)

CallIn(op, ref, context, path, value, src, ret, err, log) ==
  LET rep == op = "set" /\ last.op = "set" /\ last.ref = ref /\ last.value = value
               /\ last.src = src
  IN [again |-> rep,
      bound |-> IF op \in {"bind", "unbind", "lookup"} /\ path.st = "ok"
                THEN BoundAt(modelBinding, PathToString(path.segs)) ELSE <<>>,
      context |-> context,
      cur |-> IF path.st = "ok" THEN ValueAt(model, path.segs) ELSE Undef,
      err |-> err, log |-> log,
      missing |-> path.st = "ok" /\ \E i \in 1..(Len(path.segs) - 1) :
                                      ValueAt(model, SubSeq(path.segs, 1, i)) = Undef,
      op |-> op, path |-> path,
      prevLog |-> IF rep THEN last.log ELSE <<>>,
      ref |-> ref, ret |-> ret,
      same |-> model' = model, sameBinding |-> modelBinding' = modelBinding,
      src |-> src, value |-> value]

Call(op, ref, path, value, src, ret, err, log) ==
  CallIn(op, ref, NoRef, path, value, src, ret, err, log)

Init ==
  /\ model = EmptyObj
  /\ modelBinding = [k \in {} |-> <<>>]
  /\ modelOptions = DefaultOptions
  /\ stack = <<>>
  /\ last = [again |-> FALSE, bound |-> <<>>, context |-> NoRef, cur |-> Undef, err |-> "none", log |-> <<>>,
             missing |-> FALSE, op |-> "init", path |-> NoPath, prevLog |-> <<>>,
             ref |-> NoRef, ret |-> Undef, same |-> TRUE, sameBinding |-> TRUE,
             src |-> "none", value |-> Undef]

\* modelValue($.modelPath(ref, context), mode, value, src) with the dispatch it
\* makes
RunIn(op, ref, context, mode, value, src) ==
  LET path == ModelPath(ref, context)
      r == ModelValue(model, path, mode, value)
      t == IF r.st = "ok" /\ r.fired
           THEN ModelTrigger(r.node, path, src, modelBinding)
           ELSE [log |-> <<>>, st |-> r.st]
  IN /\ model' = r.node
     /\ UNCHANGED <<modelBinding, modelOptions, stack>>
     /\ last' = CallIn(op, ref, context, path, value, src,
                       IF t.st = "ok" THEN r.ret ELSE Undef,
                       IF t.st = "ok" THEN "none" ELSE t.st, t.log)

Run(op, ref, mode, value, src) == RunIn(op, ref, NoRef, mode, value, src)

\* $.modelGet(ref)
ModelGet(ref) == Run("get", ref, GET, Undef, "none")

\* $.modelSet(ref, value)
ModelSet(ref, value) == Run("set", ref, SET, value, "none")

\* $(e).modelSet(value, context, excludeSelf), as $.modelHandler.change calls
\* it with excludeSelf = true
FnModelSet(e, value, excludeSelf) ==
  Run("set", ElemRef(e), SET, value, IF excludeSelf THEN e ELSE "none")

\* $.modelDelete(ref)
ModelDelete(ref) == Run("delete", ref, DELETE, Undef, "none")

\* $.modelBind(ref, obj, context)
ModelBindIn(ref, obj, context) ==
  LET path == ModelPath(ref, context)
      k == KeyOf(path)
  IN /\ Cardinality(Registrations(modelBinding)) < MaxBind
     /\ modelBinding' = IF k.st = "ok" THEN BindAt(modelBinding, k.key, obj) ELSE modelBinding
     /\ UNCHANGED <<model, modelOptions, stack>>
     /\ last' = CallIn("bind", ref, context, path, Undef, obj, Undef,
                       IF k.st = "ok" THEN "none" ELSE k.st, <<>>)

\* $.modelBind(ref, obj)
ModelBind(ref, obj) == ModelBindIn(ref, obj, NoRef)

\* $(e).modelBind(context): $.modelBind(this, this, context) on an element
\* that carries the attribute, nothing on one that does not
FnModelBindIn(e, context) ==
  IF HasRef(e) THEN ModelBindIn(ElemRef(e), e, context)
  ELSE /\ UNCHANGED <<model, modelBinding, modelOptions, stack>>
       /\ last' = CallIn("bind", ElemRef(e), context, ModelPath(ElemRef(e), context),
                         Undef, e, Undef, "none", <<>>)

\* $(e).modelBind()
FnModelBind(e) == FnModelBindIn(e, NoRef)

\* $(e).modelUnbind(context): $.modelUnbind(this), the context is not passed on
FnModelUnbindIn(e, context) ==
  LET path == ModelPath(ElemRef(e), NoRef)
      k == IF HasRef(e) THEN KeyOf(path) ELSE [key |-> <<>>, st |-> "skipped"]
  IN /\ modelBinding' = IF k.st = "ok" THEN UnbindAt(modelBinding, k.key) ELSE modelBinding
     /\ UNCHANGED <<model, modelOptions, stack>>
     /\ last' = CallIn("unbind", ElemRef(e), context, path, Undef, e, Undef,
                       IF k.st = "TypeError" THEN k.st ELSE "none", <<>>)

\* $.modelPath(ref, context): the path is kept in the record
ModelPathCall(ref, context) ==
  /\ UNCHANGED <<model, modelBinding, modelOptions, stack>>
  /\ last' = CallIn("path", ref, context, ModelPath(ref, context), Undef, "none", Undef,
                    IF ModelPath(ref, context).st = "TypeError" THEN "TypeError" ELSE "none",
                    <<>>)

\* $.modelGet(ref, context), $.modelSet(ref, value, context)
ModelGetIn(ref, context) == RunIn("get", ref, context, GET, Undef, "none")
ModelSetIn(ref, value, context) == RunIn("set", ref, context, SET, value, "none")

\* $.modelUnbind(ref)
ModelUnbind(ref) ==
  LET path == ModelPath(ref, NoRef)
      k == KeyOf(path)
  IN /\ modelBinding' = IF k.st = "ok" THEN UnbindAt(modelBinding, k.key) ELSE modelBinding
     /\ UNCHANGED <<model, modelOptions, stack>>
     /\ last' = Call("unbind", ref, path, Undef, "none", Undef,
                     IF k.st = "ok" THEN "none" ELSE k.st, <<>>)

\* $.modelGetBound(ref): the list found is kept in log
ModelGetBound(ref) ==
  LET path == ModelPath(ref, NoRef)
      k == KeyOf(path)
  IN /\ UNCHANGED <<model, modelBinding, modelOptions, stack>>
     /\ last' = Call("lookup", ref, path, Undef, "none", Undef,
                     IF k.st = "ok" THEN "none" ELSE k.st, <<>>)

\* $.modelTrigger(ref, undefined, event, src)
ModelTriggerCall(ref, src) ==
  LET path == ModelPath(ref, NoRef)
      t == ModelTrigger(model, path, src, modelBinding)
  IN /\ UNCHANGED <<model, modelBinding, modelOptions, stack>>
     /\ last' = Call("trigger", ref, path, Undef, src, Undef,
                     IF t.st = "ok" THEN "none" ELSE t.st, t.log)

Next ==
  \/ \E ref \in GetRefs : ModelGet(ref)
  \/ \E ref \in Refs, v \in Values : ModelSet(ref, v)
  \/ \E e \in Elements, v \in Values : FnModelSet(e, v, TRUE)
  \/ \E ref \in Refs : ModelDelete(ref)
  \/ \E ref \in BindRefs, f \in Callbacks : ModelBind(ref, f)
  \/ \E e \in Elements : FnModelBind(e)
  \/ \E ref \in UnbindRefs : ModelUnbind(ref)
  \/ \E ref \in LookupRefs : ModelGetBound(ref)
  \/ \E ref \in TriggerRefs : ModelTriggerCall(ref, "none")

Spec == Init /\ [][Next]_vars

-----------------------------------------------------------------------------
(* Relative references, contexts and scope chains *)

\* "a", "/a", "x" under "b", and the chains of e3, e4, e5
ScopeRefs == { StrRef(<<"a">>), StrRef(<<"", "a">>), StrRef(<<"b", "x">>),
               ElemRef("e3"), ElemRef("e4"), ElemRef("e5") }
\* no context, and "/c"
Contexts == { NoRef, StrRef(<<"", "c">>) }
\* the references written and bound: "a" and e3
StoreRefs == { StrRef(<<"a">>), ElemRef("e3") }
\* stored values here: the walk is the same for every defined value
ScopeValue == Num(1)

NextScope ==
  \/ \E ref \in ScopeRefs, c \in Contexts : ModelPathCall(ref, c)
  \/ ModelGetIn(StrRef(<<"", "a">>), NoRef)
  \/ \E ref \in StoreRefs, c \in Contexts : ModelSetIn(ref, ScopeValue, c)
  \/ ModelBindIn(StrRef(<<"a">>), "f1", NoRef)
  \/ \E e \in {"e3", "e4"}, c \in Contexts : FnModelBindIn(e, c)
  \/ \E e \in {"e3", "e4"}, c \in Contexts : FnModelUnbindIn(e, c)

SpecScope == Init /\ [][NextScope]_vars


-----------------------------------------------------------------------------
(* What the claims speak of *)

Segs(c) == c.path.segs

\* the canonical string '/seg/seg/...' of a non-empty segment sequence, and '/'
CanonKey(segs) == <<"">> \o segs
RootKey == <<"", "">>

\* the registrations under one key that a dispatch from origin src reaches,
\* in registration order, as <<key, position, observer>>
ReachedAt(key, src) ==
  IF key \in DOMAIN modelBinding
  THEN SelectSeq([m \in 1..Len(modelBinding[key]) |-> <<key, m, modelBinding[key][m]>>],
                 LAMBDA t : t[3] \in Callbacks \/ t[3] # src)
  ELSE <<>>

\* ... under the keys of the prefixes of segs of length i..Len(segs), shortest
\* first; the prefix of length 0 is the root '/'
RECURSIVE ReachedFrom(_, _, _)
ReachedFrom(segs, i, src) ==
  IF i > Len(segs) THEN <<>>
  ELSE ReachedAt(IF i = 0 THEN RootKey ELSE CanonKey(SubSeq(segs, 1, i)), src)
         \o ReachedFrom(segs, i + 1, src)

\* the observers the last call reached, in order
Invoked == [j \in 1..Len(last.log) |-> <<last.log[j].key, last.log[j].n, last.log[j].obs>>]

\* the last call was a set on a resolved path that changed the value there
SetChanged ==
  /\ last.op = "set" /\ last.path.st = "ok" /\ last.err = "none"
  /\ ValueAt(model, Segs(last)) # last.cur

\* C1: in every reachable store, for a path p where get(p) is undefined and
\* any value v, set(p, v) followed at once by get(p) returns v.
C1_SetThenGet ==
  (last.op = "set" /\ last.path.st = "ok" /\ last.cur = Undef)
    => /\ last.err = "none"
       /\ ModelValue(model, last.path, GET, Undef).st = "ok"
       /\ ModelValue(model, last.path, GET, Undef).ret = last.value

\* C2 as stated: a set that changes the value at p invokes, once each, the
\* observers bound at every prefix of p from the root '/' down to p, shorter
\* prefixes first and in registration order under one key, and no others.
C2_FromRoot == SetChanged => Invoked = ReachedFrom(Segs(last), 0, last.src)

\* C2 amended: a set that changes the value at p invokes, once per
\* registration, the observers registered under the canonical string of each
\* prefix of p of length 1..|p| (the origin element of the write excepted),
\* shorter prefixes first and in registration order under one key, and no
\* others; an observer bound at the root '/' is not among them.
C2_Dispatch == SetChanged => Invoked = ReachedFrom(Segs(last), 1, last.src)

\* two observers reached at two prefixes of the path, the shorter first
C2_Witness ==
  /\ SetChanged /\ Len(last.log) = 2
  /\ last.log[1].pathIndex < last.log[2].pathIndex

\* C3: the second of two consecutive calls set(p, v); set(p, v) invokes no
\* observer and leaves the store unchanged.
C3_SecondSetSilent ==
  (last.again /\ last.path.st = "ok")
    => (last.err = "none" /\ last.log = <<>> /\ last.same)

\* C4: get(p) leaves the whole store unchanged.
C4_GetPure == last.op = "get" => last.same

\* C5: a set attributed to an origin element O delivers no 'update' to O, and
\* whenever it dispatches it reaches every other registration under the
\* prefixes of p: every callback and every other element.
C5_SourceExcluded ==
  (last.op = "set" /\ last.src \in Elements /\ last.path.st = "ok")
    => /\ \A j \in 1..Len(last.log) : last.log[j].obs # last.src
       /\ (last.cur # last.value) =>
            \A i \in 1..Len(Segs(last)) :
              LET key == CanonKey(SubSeq(Segs(last), 1, i))
              IN key \in DOMAIN modelBinding =>
                   \A m \in 1..Len(modelBinding[key]) :
                     modelBinding[key][m] # last.src =>
                       \E j \in 1..Len(last.log) :
                         /\ last.log[j].key = key /\ last.log[j].n = m
                         /\ last.log[j].obs = modelBinding[key][m]
                         /\ last.log[j].kind =
                              (IF modelBinding[key][m] \in Callbacks THEN "call" ELSE "update")

\* the origin is bound at its own path, and another element was delivered to
C5_Witness ==
  /\ last.op = "set" /\ last.src \in Elements /\ last.path.st = "ok"
  /\ CanonKey(Segs(last)) \in DOMAIN modelBinding
  /\ \E m \in 1..Len(modelBinding[CanonKey(Segs(last))]) :
       modelBinding[CanonKey(Segs(last))][m] = last.src
  /\ \E j \in 1..Len(last.log) : last.log[j].kind = "update"


\* C6: with a reference that resolves to undefined, get, set, delete, bind,
\* unbind, lookup and trigger raise nothing, change neither the store nor the
\* registry, and invoke no observer.
C6_UnresolvedNoOp ==
  (last.op # "init" /\ last.path.st = "undefined")
    => (last.err = "none" /\ last.same /\ last.sameBinding /\ last.log = <<>>)

\* C7: delete(p) with an absent intermediate segment returns undefined,
\* leaves the store as it was (no container made) and invokes no observer.
C7_DeleteMissing ==
  (last.op = "delete" /\ last.missing)
    => (last.err = "none" /\ last.ret = Undef /\ last.same /\ last.log = <<>>)

\* such a delete below a prefix that has an observer bound
C7_Witness ==
  /\ last.op = "delete" /\ last.missing
  /\ CanonKey(SubSeq(Segs(last), 1, 1)) \in DOMAIN modelBinding

Front(segs) == SubSeq(segs, 1, Len(segs) - 1)

\* the store with the value at an existing path replaced
RECURSIVE ReplaceAt(_, _, _)
ReplaceAt(x, segs, new) ==
  IF segs = <<>> THEN new
  ELSE [x EXCEPT !.kids = [s \in DOMAIN x.kids |->
                             IF s = Head(segs) THEN ReplaceAt(x.kids[s], Tail(segs), new)
                             ELSE x.kids[s]]]

\* a list without its element k: later elements one index down, one shorter
\* when k was within the length
WithoutIndex(x, k) ==
  LET keep == {s \in DOMAIN x.kids : ~IsIndex(s) \/ IndexOf(s) < k}
      moved == {IdxSegs[IndexOf(t)] : t \in {u \in DOMAIN x.kids : IsIndex(u) /\ IndexOf(u) > k}}
  IN [x EXCEPT !.kids = [s \in keep \cup moved |->
                           IF IsIndex(s) /\ IndexOf(s) >= k
                           THEN x.kids[IdxSegs[IndexOf(s) + 2]] ELSE x.kids[s]],
               !.len = IF k < x.len THEN x.len - 1 ELSE x.len]

\* a container without the field named seg
WithoutField(x, seg) == [x EXCEPT !.kids = [s \in DOMAIN x.kids \ {seg} |-> x.kids[s]]]

\* C8: delete(p) under an existing parent container removes exactly what the
\* last segment names - from a list the element at that index, later elements
\* moving one down; from a map that field - and changes nothing else.
C8_DeleteExact ==
  [][ (last'.op = "delete" /\ last'.path.st = "ok" /\ Segs(last') # <<>>
        /\ IsContainer(ValueAt(model, Front(Segs(last')))))
      => LET segs == Segs(last')
             parent == ValueAt(model, Front(segs))
             seg == segs[Len(segs)]
         IN model' = ReplaceAt(model, Front(segs),
                       IF parent.k = "arr" /\ IsIndex(seg)
                       THEN WithoutIndex(parent, IndexOf(seg))
                       ELSE WithoutField(parent, seg)) ]_vars

\* the last call was a delete that reached its parent
DeleteRan == last.op = "delete" /\ last.path.st = "ok" /\ ~last.missing

\* the records the last dispatch delivered under the key of p itself
AtTarget == {j \in 1..Len(last.log) : last.log[j].pathIndex = Len(Segs(last))}

\* C9 as stated: a delete that reaches its parent dispatches, and the record
\* delivered to an observer bound at p carries undefined, for a map and for a
\* list.
C9_ValueAbsent ==
  DeleteRan => /\ last.err = "none"
               /\ Invoked = ReachedFrom(Segs(last), 1, "none")
               /\ \A j \in AtTarget : last.log[j].value = Undef

\* C9 amended: a delete that reaches its parent dispatches over the prefixes
\* of p, and the record delivered to an observer bound at p carries the value
\* found at p after the deletion: undefined under a map, and under a list the
\* element that moved down into that index, if any.
C9_DeleteRecord ==
  DeleteRan => /\ last.err = "none"
               /\ Invoked = ReachedFrom(Segs(last), 1, "none")
               /\ \A j \in AtTarget :
                    /\ last.log[j].value = ValueAt(model, Segs(last))
                    /\ ValueAt(model, Front(Segs(last))).k = "obj"
                         => last.log[j].value = Undef

\* an observer bound at a list index is handed the element that moved down
C9_Witness ==
  /\ DeleteRan
  /\ ValueAt(model, Front(Segs(last))).k = "arr"
  /\ \E j \in AtTarget : last.log[j].value # Undef

\* C10: unbind(p) leaves nothing registered under p's key, and a dispatch
\* reaches only observers that are registered: after the unbind none of the
\* removed observers is invoked through that key.
C10_Unbind ==
  /\ (last.op = "unbind" /\ last.err = "none")
       => CanonKey(Segs(last)) \notin DOMAIN modelBinding
  /\ \A j \in 1..Len(last.log) :
       /\ last.log[j].key \in DOMAIN modelBinding
       /\ last.log[j].n <= Len(modelBinding[last.log[j].key])
       /\ modelBinding[last.log[j].key][last.log[j].n] = last.log[j].obs

\* an unbind that removed two observers at once
C10_Witness == last.op = "unbind" /\ last.err = "none" /\ Len(last.bound) = 2

-----------------------------------------------------------------------------
(* Dispatch step by step, with observers that re-enter the API *)

\* What a callback does when invoked: f1 returns at once; fUnbind calls
\* $.modelUnbind('/a/0'); fThrow throws; fSet calls $.modelSet('/a/0', w) with
\* w different from the value stored there.
Script(b) ==
  CASE b = "fUnbind" -> "unbind"
    [] b = "fThrow" -> "throw"
    [] b = "fSet" -> "set"
    [] OTHER -> "none"

\* the path the scripted callbacks address: /a/0
ScriptRef == StrRef(<<"", "a", "0">>)

\* a value different from cur
Other(cur) == IF cur = Num(1) THEN Num(2) ELSE Num(1)

\* $.modelTrigger's walk callback entered at index i: the list is looked up
\* in the registry then, and $.each runs over that list object
Frame(path, i, src, began) ==
  [began |-> began, bindings |-> BoundAt(modelBinding, BindingKey(path, i)),
   i |-> i, n |-> 1, path |-> path, src |-> src]

\* a dispatcher that catches what an observer throws and goes on
CaughtByDispatcher(frames) == frames

\* an exception thrown by an observer: neither $.each nor $.modelTrigger nor
\* modelValue (whose try covers the walk only) catches it, so every
\* activation up to the top-level caller is abandoned
Uncaught(frames) == <<>>

\* a top-level $.modelSet / $.modelDelete: modelValue up to its call of
\* $.modelTrigger, which is entered at index 0 of the path
Enter(op, ref, mode, value) ==
  LET path == ModelPath(ref, NoRef)
      r == ModelValue(model, path, mode, value)
  IN /\ stack = <<>>
     /\ model' = r.node
     /\ stack' = IF r.st = "ok" /\ r.fired
                  THEN <<Frame(path.segs, 1, "none", modelBinding)>> ELSE <<>>
     /\ UNCHANGED <<modelBinding, modelOptions>>
     /\ last' = Call(op, ref, path, value, "none", r.ret,
                     IF r.st = "ok" THEN "none" ELSE r.st, <<>>)

\* $.each reaches the next observer of the list and invokes it; the callback
\* runs its script, a nested $.modelSet entering a dispatch of its own
Invoke ==
  /\ stack # <<>>
  /\ LET d == Len(stack)
         top == stack[d]
     IN /\ top.n <= Len(top.bindings)
        /\ LET b == top.bindings[top.n]
               self == ValueAt(model, SubSeq(top.path, 1, top.i - 1))
               rec == [bound |-> \E k \in DOMAIN modelBinding :
                                   \E m \in 1..Len(modelBinding[k]) : modelBinding[k][m] = b,
                       depth |-> d, key |-> BindingKey(top.path, top.i),
                       kind |-> IF IsFunction(b) THEN "call" ELSE "update",
                       n |-> top.n, obs |-> b, pathIndex |-> top.i,
                       value |-> RecordValue(self, top.path, top.i)]
               rest == [stack EXCEPT ![d].n = @ + 1]
               path == ModelPath(ScriptRef, NoRef)
               r == ModelValue(model, path, SET, Other(ValueAt(model, path.segs)))
           IN /\ Script(b) = "set" /\ r.st = "ok" /\ r.fired => d < MaxDepth
              /\ model' = IF Script(b) = "set" THEN r.node ELSE model
              /\ modelBinding' = IF Script(b) = "unbind"
                                 THEN UnbindAt(modelBinding, KeyOf(path).key)
                                 ELSE modelBinding
              /\ stack' = CASE Script(b) = "throw" -> Uncaught(rest)
                             [] Script(b) = "set" /\ r.st # "ok" -> <<>>
                             [] Script(b) = "set" /\ r.fired ->
                                  Append(rest, Frame(path.segs, 1, "none", modelBinding))
                             [] OTHER -> rest
              /\ last' = [last EXCEPT !.log = Append(@, rec),
                                      !.err = CASE Script(b) = "throw" -> "ObserverError"
                                                [] Script(b) = "set" /\ r.st # "ok" -> r.st
                                                [] OTHER -> @]
              /\ UNCHANGED modelOptions

\* the list is exhausted: the walk descends, parent = parent[path[i]], and
\* enters the callback at the next index, or returns when the path is done
Advance ==
  /\ stack # <<>>
  /\ LET d == Len(stack)
         top == stack[d]
         self == ValueAt(model, SubSeq(top.path, 1, top.i - 1))
     IN /\ top.n > Len(top.bindings)
        /\ stack' = IF self.k = "undef" THEN <<>>
                     ELSE IF top.i = Len(top.path) THEN SubSeq(stack, 1, d - 1)
                     ELSE [stack EXCEPT ![d] = Frame(top.path, top.i + 1, top.src, top.began)]
        /\ last' = [last EXCEPT !.err = IF self.k = "undef" THEN "TypeError" ELSE @]
        /\ UNCHANGED <<model, modelBinding, modelOptions>>

\* "/a" and "/a/0"
ReentryRefs == { StrRef(<<"", "a">>), ScriptRef }

NextReentry ==
  \/ \E v \in {Num(1), Num(2)} : Enter("set", ScriptRef, SET, v)
  \/ Enter("delete", ScriptRef, DELETE, Undef)
  \/ \E ref \in ReentryRefs, f \in Callbacks \cup Scripted : stack = <<>> /\ ModelBind(ref, f)
  \/ \E ref \in ReentryRefs : stack = <<>> /\ ModelUnbind(ref)
  \/ Invoke
  \/ Advance

SpecReentry == Init /\ [][NextReentry]_vars

\* this step invoked an observer
Invoked1 == stack # <<>> /\ Len(last'.log) = Len(last.log) + 1

\* this step returned from the originating call without an exception
Returned == stack # <<>> /\ stack' = <<>> /\ last'.err = "none"

\* C16: every observer registered at p or at a prefix of p when a dispatch
\* for p began has been invoked when the dispatch returns, whatever the
\* observers invoked earlier did re-entrantly, provided none threw.
C16_AllInvoked ==
  [][ Returned
      => LET f == stack[1]
         IN \A i \in 1..Len(f.path) :
              LET key == CanonKey(SubSeq(f.path, 1, i))
              IN key \in DOMAIN f.began
                   => \A m \in 1..Len(f.began[key]) :
                        \E j \in 1..Len(last'.log) :
                          last'.log[j].key = key /\ last'.log[j].obs = f.began[key][m] ]_vars

\* C17: an exception thrown by an observer during the dispatch of a set or
\* delete is not caught: it abandons the call, reaching its caller, and no
\* observer later in the dispatch order is invoked.
C17_ThrowPropagates ==
  last.err = "ObserverError"
    => /\ last.op \in {"set", "delete"}
       /\ stack = <<>>
       /\ last.log # <<>>
       /\ Script(last.log[Len(last.log)].obs) = "throw"

\* an observer threw while another was registered after it in the dispatch
\* order: later under the same key, or under a longer prefix
C17_Witness ==
  /\ last.err = "ObserverError" /\ last.log # <<>>
  /\ LET rec == last.log[Len(last.log)]
     IN \/ /\ rec.key \in DOMAIN modelBinding
           /\ Len(modelBinding[rec.key]) > rec.n
        \/ \E i \in (rec.pathIndex + 1)..Len(Segs(last)) :
             CanonKey(SubSeq(Segs(last), 1, i)) \in DOMAIN modelBinding

\* C18: an observer bound at p (or above) that answers every notification
\* with set(p, w), w different from the value stored at p, re-enters the
\* dispatcher at each notification, and the originating call does not return.
C18_NoCycleGuard ==
  [][ /\ (Invoked1 /\ Script(last'.log[Len(last'.log)].obs) = "set"
            /\ last'.log[Len(last'.log)].bound)
          => Len(stack') = Len(stack) + 1
      /\ Returned
          => \A j \in 1..Len(last'.log) :
               ~(Script(last'.log[j].obs) = "set" /\ last'.log[j].bound) ]_vars

\* the rewriting observer has been notified at every level of a dispatch
\* nested to the depth followed
C18_Witness ==
  /\ Len(stack) = MaxDepth
  /\ \A d \in 1..(MaxDepth - 1) :
       \E j \in 1..Len(last.log) :
         last.log[j].depth = d /\ Script(last.log[j].obs) = "set" /\ last.log[j].bound

-----------------------------------------------------------------------------
(* $.modelDefaults *)

\* one round of $.extend: every property of options is assigned to target;
\* a number has no property to copy
ExtendOne(target, options) ==
  IF IsContainer(options)
  THEN [target EXCEPT !.kids = [s \in DOMAIN target.kids \cup DOMAIN options.kids |->
                                  IF s \in DOMAIN options.kids THEN options.kids[s]
                                  ELSE target.kids[s]]]
  ELSE target

\* $.extend(target, defaults, current): no deep flag is passed
Extend(target, defaults, current) == ExtendOne(ExtendOne(target, defaults), current)

\* $.modelDefaults(ref, defaults): $.modelGet(ref), $.extend, $.modelSet(ref, ...)
ModelDefaults(ref, defaults) ==
  LET path == ModelPath(ref, NoRef)
      g == ModelValue(model, path, GET, Undef)
      r == IF g.st = "ok"
           THEN ModelValue(g.node, path, SET, Extend(EmptyObj, defaults, g.ret))
           ELSE g
      t == IF r.st = "ok" /\ r.fired
           THEN ModelTrigger(r.node, path, "none", modelBinding)
           ELSE [log |-> <<>>, st |-> r.st]
  IN /\ model' = r.node
     /\ UNCHANGED <<modelBinding, modelOptions, stack>>
     /\ last' = Call("defaults", ref, path, defaults, "none", Undef,
                     IF t.st = "ok" THEN "none" ELSE t.st, t.log)

Obj1(key, val) == PutProp(EmptyObj, key, val)

\* {k: 1}, {k: 2}, {y: 1} and {n: {z: 1}}
DefaultsArgs == { Obj1("k", Num(1)), Obj1("k", Num(2)), Obj1("y", Num(1)),
                  Obj1("n", Obj1("z", Num(1))) }
\* "/x" and "/x/n"
DefaultsRefs == { StrRef(<<"", "x">>), StrRef(<<"", "x", "n">>) }
\* "/x", "/x/k" and "/x/n/y"
FilledRefs == { StrRef(<<"", "x">>), StrRef(<<"", "x", "k">>), StrRef(<<"", "x", "n", "y">>) }

NextDefaults ==
  \/ \E ref \in DefaultsRefs, d \in DefaultsArgs : ModelDefaults(ref, d)
  \/ \E ref \in FilledRefs, v \in Values : ModelSet(ref, v)

SpecDefaults == Init /\ [][NextDefaults]_vars

\* get(p) on a store: the status and the value returned
GetAt(store, segs) ==
  LET r == ModelValue(store, OkPath(segs), GET, Undef)
  IN [ret |-> r.ret, st |-> IF r.st = "ok" THEN "none" ELSE r.st]

\* the keys present under a value
KeysUnder(x) == IF IsContainer(x) THEN DOMAIN x.kids ELSE {}

\* C13: defaults(p, d) keeps get(p/k) for every key k present under p; after
\* defaults(p, d1); defaults(p, d2), get(p/k) is d1's value for every key k of
\* d1 that was absent at first; the same defaults applied twice leave the
\* store as applied once.
C13_DefaultsKeep ==
  [][ (last'.op = "defaults" /\ last'.path.st = "ok")
      => LET p == Segs(last')
         IN /\ \A k \in KeysUnder(ValueAt(model, p)) :
                  GetAt(model', p \o <<k>>) = GetAt(model, p \o <<k>>)
            /\ (last.op = "defaults" /\ last.ref = last'.ref)
                 => /\ \A k \in KeysUnder(last.value) :
                          Prop(last.cur, k) = Undef
                            => GetAt(model', p \o <<k>>) = [ret |-> last.value.kids[k], st |-> "none"]
                    /\ last.value = last'.value => model' = model ]_vars

\* C14: where d has a map at key k and the store has a map at p/k,
\* defaults(p, d) fills in from d[k] every nested key absent under p/k and
\* keeps the nested keys present there.
C14_DefaultsDeep ==
  [][ (last'.op = "defaults" /\ last'.path.st = "ok")
      => LET p == Segs(last')
             d == last'.value
         IN \A k \in KeysUnder(d) :
              (d.kids[k].k = "obj" /\ ValueAt(model, p \o <<k>>).k = "obj")
                => \A j \in KeysUnder(d.kids[k]) :
                     ValueAt(model', p \o <<k, j>>) =
                       (IF Prop(ValueAt(model, p \o <<k>>), j) = Undef
                        THEN d.kids[k].kids[j]
                        ELSE Prop(ValueAt(model, p \o <<k>>), j)) ]_vars

-----------------------------------------------------------------------------
(* $.modelSub *)

\* Text here is a sequence of tokens: a run of characters without brace or
\* dollar sign, a placeholder "{/name}", or the two characters "$&".
Lit(str) == [s |-> str, t |-> "lit"]
Ph(name) == [s |-> name, t |-> "ph"]
Amp == [s |-> "$&", t |-> "amp"]

\* the strings kept in the store: "{/b}", "x" and "$&"
StrTable == << <<Ph("b")>>, <<Lit("x")>>, <<Amp>> >>
Str(n) == [k |-> "str", kids |-> NoKids, len |-> 0, v |-> n]

\* String(value), as replace() converts its second argument
Digits == <<"1", "2", "3">>
TextOf(x) ==
  CASE x.k = "str" -> StrTable[x.v]
    [] x.k = "num" -> <<Lit(Digits[x.v])>>
    [] x.k = "undef" -> <<Lit("undefined")>>
    [] OTHER -> <<Lit("[object Object]")>>

\* re.exec(template) over the whole template: its placeholders in order
Matches(template) == SelectSeq(template, LAMBDA tok : tok.t = "ph")

\* the replacement text with its "$&" patterns expanded to the matched text
Expand(text, match) == [j \in 1..Len(text) |-> IF text[j].t = "amp" THEN match ELSE text[j]]

\* result.replace(match[0], text): the first occurrence of the matched text
ReplaceFirst(result, match, text) ==
  IF \E j \in 1..Len(result) : result[j] = match
  THEN LET j == CHOOSE i \in 1..Len(result) :
                  result[i] = match /\ \A h \in 1..(i - 1) : result[h] # match
       IN SubSeq(result, 1, j - 1) \o Expand(text, match) \o SubSeq(result, j + 1, Len(result))
  ELSE result

\* the while loop of $.modelSub from the i-th match on
RECURSIVE SubFrom(_, _, _, _)
SubFrom(matches, i, result, store) ==
  IF i > Len(matches) THEN [result |-> result, st |-> "ok", store |-> store]
  ELSE LET g == ModelValue(store, ModelPath(StrRef(<<"", matches[i].s>>), NoRef), GET, Undef)
       IN IF g.st # "ok" THEN [result |-> result, st |-> g.st, store |-> g.node]
          ELSE SubFrom(matches, i + 1, ReplaceFirst(result, matches[i], TextOf(g.ret)), g.node)

\* $.modelSub(template): the template and the string returned are kept in log
ModelSub(template) ==
  LET r == SubFrom(Matches(template), 1, template, model)
  IN /\ model' = r.store
     /\ UNCHANGED <<modelBinding, modelOptions, stack>>
     /\ last' = Call("sub", NoRef, NoPath, Undef, "none", Undef,
                     IF r.st = "ok" THEN "none" ELSE r.st,
                     << [result |-> r.result, template |-> template] >>)

\* "{/a}", "Page {/a} of {/b}", "{/a} {/a}" and "{/a}{/b}"
Templates == { <<Ph("a")>>, <<Lit("Page "), Ph("a"), Lit(" of "), Ph("b")>>,
               <<Ph("a"), Lit(" "), Ph("a")>>, <<Ph("a"), Ph("b")>> }
SubRefs == { StrRef(<<"", "a">>), StrRef(<<"", "b">>) }
SubValues == {Num(n) : n \in 1..MaxVal} \cup {Str(n) : n \in 1..Len(StrTable)}

NextSub ==
  \/ \E ref \in SubRefs, v \in SubValues : ModelSet(ref, v)
  \/ \E ref \in SubRefs : ModelDelete(ref)
  \/ \E template \in Templates : ModelSub(template)

SpecSub == Init /\ [][NextSub]_vars

\* the template with each placeholder replaced, where it stands, by the text
\* of the value stored under its reference
RECURSIVE Substituted(_, _)
Substituted(template, store) ==
  IF template = <<>> THEN <<>>
  ELSE (IF Head(template).t = "ph"
        THEN TextOf(ValueAt(store, <<Head(template).s>>))
        ELSE <<Head(template)>>) \o Substituted(Tail(template), store)

\* C15: substitute(template) returns the template with every placeholder
\* {ref} replaced by the value get(ref) (the transform being the identity),
\* repeated placeholders included, and the rest of the text unchanged.
C15_Substitute ==
  last.op = "sub"
    => (last.err = "none" /\ last.log[1].result = Substituted(last.log[1].template, model))

-----------------------------------------------------------------------------
(* The array-creation option *)

\* $.modelOptions.createArrays = b
SetCreateArrays(b) ==
  /\ modelOptions' = [modelOptions EXCEPT !.createArrays = b]
  /\ UNCHANGED <<model, modelBinding, stack>>
  /\ last' = Call("option", NoRef, NoPath, Undef, "none", Undef, "none", <<>>)

\* "/a/0", "/a/b", "/a/" and "/a/0/b"
OptionRefs == { StrRef(<<"", "a", "0">>), StrRef(<<"", "a", "b">>),
                StrRef(<<"", "a", "">>), StrRef(<<"", "a", "0", "b">>) }

NextOptions ==
  \/ \E b \in BOOLEAN : SetCreateArrays(b)
  \/ \E ref \in OptionRefs, v \in Values : ModelSet(ref, v)
  \/ ModelDelete(StrRef(<<"", "a">>))

SpecOptions == Init /\ [][NextOptions]_vars

\* a segment written as a number
Numeric(seg) == IsIndex(seg)

\* C12: where set(p, v) meets an absent intermediate segment, the container
\* it creates there is a list if the following segment is numeric and the
\* array-creation option is enabled, and a map otherwise.
C12_ContainerKind ==
  [][ (last'.op = "set" /\ last'.path.st = "ok" /\ last'.err = "none")
      => \A i \in 1..(Len(Segs(last')) - 1) :
           ValueAt(model, SubSeq(Segs(last'), 1, i)) = Undef
             => ValueAt(model', SubSeq(Segs(last'), 1, i)).k =
                  (IF Numeric(Segs(last')[i + 1]) /\ createArrays THEN "arr" ELSE "obj") ]_vars

-----------------------------------------------------------------------------
(* Relative references and scope chains: what the claims speak of *)

\* a string reference that does not begin with the separator
IsRelative(ref) == ref.t = "string" /\ ref.s[1] # ""

\* the absolute reference '/' + r of a relative string reference r
Absolute(ref) == StrRef(<<"">> \o ref.s)

\* C11: with no context given and the default context '/', a relative string
\* reference r addresses the location of '/' + r: set(r, v) is read back by
\* get('/' + r), and bind(r, f) registers f under the key of '/' + r.
C11_RelativeFromRoot ==
  (IsRelative(last.ref) /\ last.context = NoRef /\ last.err = "none")
    => /\ last.op = "set" =>
            ModelValue(model, ModelPath(Absolute(last.ref), NoRef), GET, Undef).ret = last.value
       /\ last.op = "bind" =>
            LET abs == PathToString(ModelPath(Absolute(last.ref), NoRef).segs)
            IN abs \in DOMAIN modelBinding
                 /\ \E m \in 1..Len(modelBinding[abs]) : modelBinding[abs][m] = last.src

\* the position of the first absolute declaration of a chain, 0 when none is
FirstAbsolute(chain) ==
  IF \E k \in 1..Len(chain) : StartsWithSlash(chain[k])
  THEN CHOOSE k \in 1..Len(chain) :
         StartsWithSlash(chain[k]) /\ \A j \in 1..(k - 1) : ~StartsWithSlash(chain[j])
  ELSE 0

\* the declarations collected, the outermost first: up to the anchoring scope
Collected(chain) ==
  LET n == IF FirstAbsolute(chain) = 0 THEN Len(chain) ELSE FirstAbsolute(chain)
  IN [j \in 1..n |-> chain[n + 1 - j]]

\* the segments of the context a relative reference is resolved against
ContextSegs(context) == ModelPath(ContextOr(context), NoRef).segs

\* C19: a scope-chain handle resolves to the parse of the declarations
\* collected from the node outward up to the first absolute one, joined by
\* the separator; with no absolute declaration in the chain the joined string
\* is resolved as a relative reference, against the context.
C19_ScopeChain ==
  (last.op = "path" /\ last.ref.t = "element")
    => LET chain == ElemChain(last.ref.s[1])
           joined == JoinStrs(Collected(chain))
       IN last.path = IF FirstAbsolute(chain) # 0
                      THEN OkPath(Tail(joined))
                      ELSE OkPath(ContextSegs(last.context) \o joined)

\* the keys under which element e is registered
KeysOf(binding, e) ==
  {k \in DOMAIN binding : \E m \in 1..Len(binding[k]) : binding[k][m] = e}

\* C20: for an element whose declared reference is relative and that
\* $.fn.modelBind(context) has registered, $.fn.modelUnbind(context) with the
\* same context leaves no registry entry that contains the element.
C20_UnbindRoundTrip ==
  [][ (/\ last'.op = "unbind" /\ last'.ref.t = "element"
       /\ FirstAbsolute(ElemChain(last'.ref.s[1])) = 0
       /\ KeysOf(modelBinding, last'.ref.s[1])
            = {PathToString(ModelPath(last'.ref, last'.context).segs)})
      => KeysOf(modelBinding', last'.ref.s[1]) = {} ]_vars

=============================================================================
